---- MODULE Spec2Model ----
(***************************************************************************)
(* Model of the tab automation core of mcp-chrome.                         *)
(*                                                                         *)
(* FileUploadTool (file-upload.ts): every await of execute() is a          *)
(* suspension point.  An action of the model runs one workflow from the    *)
(* settlement of the host call it awaits to the issue of the next host     *)
(* call.  The browser performs a call when it is issued; the workflow      *)
(* sees the outcome when it is resumed, and other workflows, tab removal   *)
(* and other debugger clients may act in between.                          *)
(***************************************************************************)
EXTENDS Integers, Sequences, FiniteSets, TLC

\* ------------------------------------------------------------------------
\* Universe of the model
\* ------------------------------------------------------------------------

\* concurrent invocations of execute(); a slot that has returned may be
\* invoked again, so the number of calls in a behaviour is unbounded
Workflows == {"w1", "w2"}

\* tab ids the browser may report
Tabs == {1, 2}

\* number of tabs open when the tool is constructed
MaxOpenTabs == 1

\* tabs[0]?.id of an empty query result (falsy)
NoTab == 0

\* a JavaScript undefined string argument
Undefined == "undefined"

\* the JavaScript null prepareFileFromRemote resolves with
Null == "null"

\* chrome.runtime.id and the id of any other debugger client
OurId == "us"
OtherId == "other"
Detached == "none"

Selectors == {"", "#f"}
FilePaths == {Undefined, "/tmp/a.png"}
FileUrls == {Undefined, "http://x/y.bin"}
Base64s == {Undefined, "QUJD"}

\* FileUploadToolParams (fileName and multiple do not influence control flow)
\* execute() reads filePath, fileUrl and base64Data for the last time when
\* it prepares the file list; args holds NoArgs from then on
Params == [selector : Selectors, filePath : FilePaths,
           fileUrl : FileUrls, base64Data : Base64s]

\* path the native host reports for a staged file
StagedPath == "/tmp/staged"

\* node ids DOM.querySelector may answer with; MissingNodeId stands for an
\* answer without a nodeId field.  The answer of a fulfilled sendCommand is
\* drawn when the workflow resumes and reads it
MissingNodeId == -1
NodeIds == {MissingNodeId, 0, 7}

\* attribute lists DOM.describeNode may answer with (flat name, value list)
AttributeLists == { <<>>,
                    <<"type", "file">>,
                    <<"type", "text">>,
                    <<"id", "f", "type", "file">>,
                    <<"name", "type", "file", "x">> }

\* nodes DOM.describeNode may answer with
Nodes == {[nodeName |-> "DIV", attributes |-> <<>>]}
           \cup {[nodeName |-> "INPUT", attributes |-> at] : at \in AttributeLists}

\* ------------------------------------------------------------------------
\* State
\* ------------------------------------------------------------------------
VARIABLES
  openTabs,         \* browser: tabs that exist
  debuggee,         \* browser: per tab, who has the debugger attached
  activeDebuggers,  \* FileUploadTool.activeDebuggers (keys of the Map)
  pc,               \* per workflow: the await it is suspended at
  args,             \* per workflow: arguments of the current call
  tabId,            \* per workflow: local variable tabId
  files,            \* per workflow: local variable files
  resp,             \* per workflow: outcome of the pending host call
  caught,           \* per workflow: message of the error held by the catch block
  result,           \* per workflow: ToolResult returned by the current call
  issued            \* per workflow: chrome.debugger calls issued by the current call

vars == <<openTabs, debuggee, activeDebuggers, pc, args, tabId, files, resp,
          caught, result, issued>>

hostVars == <<openTabs, debuggee>>

\* prepareFileFromRemote seen on its own: every invocation is a stage call
\* with a request id of its own
VARIABLES
  calls,            \* the invocations so far, in order: promise, listener, timer, send
  inbound           \* the message chrome.runtime.onMessage dispatched by the last step

stageVars == <<calls, inbound>>

\* the image utilities and the response formatter, each seen on its own
VARIABLES
  compress,         \* compressImage: the invocation, its locals and its encode passes
  stitch,           \* stitchImages: the invocation, its canvas and its drawImage calls
  crop,             \* cropAndResizeImage: the invocation and its outcome
  currentConfig,    \* response-formatter.ts: the module variable currentConfig
  formatCalls       \* the calls made to the response formatter so far, in order

imageVars == <<compress, stitch, crop>>

formatVars == <<currentConfig, formatCalls>>

utilVars == <<imageVars, formatVars>>

\* ------------------------------------------------------------------------
\* Values
\* ------------------------------------------------------------------------

\* JavaScript truthiness of an optional string
Falsy(s) == s \in {Undefined, "", Null}

\* no call in progress, or the arguments are no longer read
NoArgs == [selector |-> Undefined, filePath |-> Undefined,
           fileUrl |-> Undefined, base64Data |-> Undefined]

\* a settled host call: ok = fulfilled or rejected, tab and target the answer
\* of tabs.query and of getTargets, message the error of a rejection
NoResp == [ok |-> TRUE, tab |-> NoTab, target |-> Detached, message |-> ""]

Fulfilled == NoResp
Rejected(msg) == [NoResp EXCEPT !.ok = FALSE, !.message = msg]

\* what a call has asked of chrome.debugger so far: the outcome of its attach
\* and of its detach ("none" = not issued), and whether it sent a command
NoCalls == [attach |-> "none", sent |-> FALSE, detach |-> "none"]

Settled(ok) == IF ok THEN "ok" ELSE "failed"

NoResult == [isError |-> FALSE, content |-> <<>>, files |-> <<>>]

\* variant: the error flag is not set
createErrorResponseUnflagged(message) ==
  [isError |-> FALSE, content |-> message, files |-> <<>>]

\* createErrorResponse (tool-handler)
createErrorResponse(message) ==
  [isError |-> TRUE, content |-> message, files |-> <<>>]

\* createSuccessResponse applied to the upload summary
createSuccessResponse(fs) ==
  [isError |-> FALSE, content |-> <<"File(s) uploaded successfully">>, files |-> fs]

\* message of the catch block: prefix + error.message
UploadError(msg) == <<"Error uploading file: ", msg>>

ConflictMessage ==
  "Debugger is already attached to this tab by another extension or DevTools"
NotFoundMessage == "Element not found"
NotInputMessage == "Element is not an input element"
NotFileInputMessage == "Element is not a file input"


\* ------------------------------------------------------------------------
\* Pure parts of execute()
\* ------------------------------------------------------------------------

\* variant: the check of the sources is missing
ValidateInputSelectorOnly(a) ==
  IF Falsy(a.selector) THEN "Selector is required for file upload" ELSE ""

\* input validation of execute(): the message of the error returned, or ""
ValidateInput(a) ==
  IF Falsy(a.selector) THEN "Selector is required for file upload"
  ELSE IF Falsy(a.filePath) /\ Falsy(a.fileUrl) /\ Falsy(a.base64Data)
       THEN "One of filePath, fileUrl, or base64Data must be provided"
       ELSE ""

\* variant: an answer without nodeId passes
NodeMissingZeroOnly(nodeId) == nodeId = 0

\* if (!nodeId || nodeId === 0)
NodeMissing(nodeId) == nodeId = MissingNodeId \/ nodeId = 0

\* variant: the loop advances by one
IsFileInputAnyIndex(attributes) ==
  \E i \in 1..Len(attributes) :
     /\ i + 1 <= Len(attributes)
     /\ attributes[i] = "type"
     /\ attributes[i + 1] = "file"

\* the loop over node.attributes: i = 0, 2, 4, ... (1, 3, 5, ... here)
IsFileInput(attributes) ==
  \E k \in 0..Len(attributes) :
     LET i == 2 * k + 1 IN
       /\ i + 1 <= Len(attributes)
       /\ attributes[i] = "type"
       /\ attributes[i + 1] = "file"

\* variant: a target attached by this extension is attached again
AttachDecisionNoReuse(existingTarget) ==
  IF existingTarget = OtherId THEN "conflict" ELSE "attach"

\* attachDebugger after getTargets: what it does with existingTarget
AttachDecision(existingTarget) ==
  IF existingTarget # Detached
  THEN IF existingTarget = OurId THEN "noop" ELSE "conflict"
  ELSE "attach"

\* variant: the map is not consulted
HasDebuggerAlways(ad, t) == TRUE

\* detachDebugger: this.activeDebuggers.has(tabId)
HasDebugger(ad, t) == t \in ad

\* variant: the catch block does not clean up
CatchNeverDetaches(ad, t) == FALSE

\* catch block: tabId !== undefined && this.activeDebuggers.has(tabId)
CatchNeedsDetach(ad, t) == t # NoTab /\ HasDebugger(ad, t)

\* variant: the map is cleared
AfterDetachMapClearsAll(ad, t, detachOk) == {}

\* variant: delete only after a detach that succeeded (no finally)
AfterDetachMapOnSuccess(ad, t, detachOk) == IF detachOk THEN ad \ {t} ELSE ad

\* detachDebugger, finally: the map once the detach call has settled
AfterDetachMap(ad, t, detachOk) == ad \ {t}

\* ------------------------------------------------------------------------
\* The browser
\* ------------------------------------------------------------------------

\* chrome.debugger.getTargets + find(t.tabId === tabId && t.attached)
ExistingTarget(t) ==
  IF t \in openTabs THEN debuggee[t] ELSE Detached

\* chrome.tabs.query({active, currentWindow})
QueryOutcomes ==
  {[Fulfilled EXCEPT !.tab = t] : t \in openTabs \cup {NoTab}}
    \cup {Rejected("tabs.query failed")}

\* chrome.debugger.sendCommand: rejected unless this extension is attached;
\* an attached target may still reject the command
SendOutcomes(t) ==
  IF t \in openTabs /\ debuggee[t] = OurId
  THEN {Fulfilled, Rejected("protocol error")}
  ELSE {Rejected("protocol error")}

\* chrome.debugger.attach fulfils iff the tab exists and nobody is attached
AttachOk(t) == t \in openTabs /\ debuggee[t] = Detached

\* chrome.debugger.detach fulfils iff this extension is attached
DetachOk(t) == t \in openTabs /\ debuggee[t] = OurId


\* ------------------------------------------------------------------------
\* Steps shared by the actions of execute()
\* ------------------------------------------------------------------------

\* the locals of execute() keep their values
KeepLocals == UNCHANGED <<args, tabId, files>>

\* execute() returns r; its locals are gone
Return(w, r) ==
  /\ pc' = [pc EXCEPT ![w] = "done"]
  /\ result' = [result EXCEPT ![w] = r]
  /\ resp' = [resp EXCEPT ![w] = NoResp]
  /\ caught' = [caught EXCEPT ![w] = ""]
  /\ args' = [args EXCEPT ![w] = NoArgs]
  /\ tabId' = [tabId EXCEPT ![w] = NoTab]
  /\ files' = [files EXCEPT ![w] = <<>>]
  /\ UNCHANGED <<hostVars, issued>>

\* await chrome.debugger.sendCommand({ tabId }, method, ...): the call is issued
SendCommand(w, method) ==
  \E r \in SendOutcomes(tabId[w]) :
    /\ pc' = [pc EXCEPT ![w] = method]
    /\ resp' = [resp EXCEPT ![w] = r]
    /\ issued' = [issued EXCEPT ![w].sent = TRUE]
    /\ UNCHANGED <<hostVars, result, caught>>
    /\ KeepLocals

\* await chrome.debugger.detach({ tabId }) inside detachDebugger: the call is
\* issued; next is where the workflow resumes, msg the error held meanwhile.
\* The catch block does not read files any more
IssueDetach(w, next, msg) ==
  LET t == tabId[w]
      ok == DetachOk(t)
  IN /\ debuggee' = IF ok THEN [debuggee EXCEPT ![t] = Detached] ELSE debuggee
     /\ UNCHANGED openTabs
     /\ pc' = [pc EXCEPT ![w] = next]
     /\ resp' = [resp EXCEPT ![w] =
                   IF ok THEN Fulfilled ELSE Rejected("Debugger is not attached")]
     /\ caught' = [caught EXCEPT ![w] = msg]
     /\ issued' = [issued EXCEPT ![w].detach = Settled(ok)]
     /\ files' = [files EXCEPT ![w] = IF next = "detach" THEN @ ELSE <<>>]
     /\ UNCHANGED <<result, args, tabId>>

\* the catch block of execute() entered with an error of message msg
Catch(w, msg) ==
  IF CatchNeedsDetach(activeDebuggers, tabId[w])
  THEN IssueDetach(w, "catch.detach", msg)
  ELSE Return(w, createErrorResponse(UploadError(msg)))

\* await this.attachDebugger(tabId) up to its first await,
\* chrome.debugger.getTargets(); fs is the file list prepared before
IssueGetTargets(w, t, fs) ==
  /\ pc' = [pc EXCEPT ![w] = "getTargets"]
  /\ resp' = [resp EXCEPT ![w] = [Fulfilled EXCEPT !.target = ExistingTarget(t)]]
  /\ tabId' = [tabId EXCEPT ![w] = t]
  /\ files' = [files EXCEPT ![w] = fs]
  /\ args' = [args EXCEPT ![w] = NoArgs]
  /\ UNCHANGED <<hostVars, result, caught, issued>>

\* ------------------------------------------------------------------------
\* prepareFileFromRemote: the promise, its listener, its timer and its send
\* ------------------------------------------------------------------------

\* number of invocations of prepareFileFromRemote in a behaviour
MaxStageCalls == 2

\* request ids: Date.now() + Math.random() give every invocation its own;
\* here the id of an invocation is its position in calls
Requests == 1..MaxStageCalls

\* a request id no invocation of this tool has
ForeignRequest == 0

MessageTypes == {"file_operation_response", "file_operation_progress"}

\* message.payload; a message without payload reads as success = undefined
Payloads == [success : BOOLEAN, filePath : {Undefined, StagedPath}]

\* messages chrome.runtime.onMessage may dispatch
Messages == [type : MessageTypes,
             responseToRequestId : Requests \cup {ForeignRequest},
             payload : Payloads]

\* inbound when the step dispatched no message; <<message>> otherwise
NoMessage == <<>>

\* the executor of new Promise(...) has run: timer set, listener added,
\* sendMessage called once
StartedCall == [phase |-> "pending", value |-> Null, listener |-> TRUE,
                timer |-> "armed", send |-> "inflight", sent |-> 1]

\* variant: a later resolve replaces the value
ResolveOverwrites(c, v) == [c EXCEPT !.phase = "resolved", !.value = v]

\* resolve(v): only the first resolve of a promise settles it
Resolve(c, v) ==
  IF c.phase = "pending" THEN [c EXCEPT !.phase = "resolved", !.value = v] ELSE c

\* clearTimeout(timeout): a timer that fired or was cleared stays as it is
ClearTimeout(c) == IF c.timer = "armed" THEN [c EXCEPT !.timer = "cleared"] ELSE c

\* chrome.runtime.onMessage.removeListener(handleMessage)
RemoveListener(c) == [c EXCEPT !.listener = FALSE]

\* variant: any file_operation_response is taken for the own one
MatchesAnyResponse(message, requestId) ==
  message.type = "file_operation_response"

\* handleMessage: the condition of its if
Matches(message, requestId) ==
  /\ message.type = "file_operation_response"
  /\ message.responseToRequestId = requestId

\* variant: the path is not looked at
ResponseValueOnSuccess(payload) ==
  IF payload.success THEN payload.filePath ELSE Null

\* handleMessage: what the matching response resolves the promise with
ResponseValue(payload) ==
  IF payload.success /\ ~Falsy(payload.filePath) THEN payload.filePath ELSE Null

\* handleMessage(message) of the invocation with id requestId
handleMessage(c, requestId, message) ==
  IF Matches(message, requestId)
  THEN Resolve(RemoveListener(ClearTimeout(c)), ResponseValue(message.payload))
  ELSE c

\* variant: the first timeout sends the request again and waits once more
OnTimeoutRetry(c) ==
  IF c.sent = 1 THEN [c EXCEPT !.sent = 2] ELSE Resolve([c EXCEPT !.timer = "fired"], Null)

\* the callback of setTimeout
OnTimeout(c) == Resolve([c EXCEPT !.timer = "fired"], Null)

\* variant: the timer is left running
OnSendRejectedKeepsTimer(c) ==
  Resolve(RemoveListener([c EXCEPT !.send = "rejected"]), Null)

\* the catch callback of chrome.runtime.sendMessage(...)
OnSendRejected(c) ==
  Resolve(RemoveListener(ClearTimeout([c EXCEPT !.send = "rejected"])), Null)

\* ------------------------------------------------------------------------
\* execute(), from await to await
\* ------------------------------------------------------------------------

\* execute(args) is called: validation, then chrome.tabs.query is issued
Execute(w, a) ==
  /\ pc[w] \in {"idle", "done"}
  /\ UNCHANGED <<stageVars, utilVars>>
  /\ UNCHANGED <<hostVars, activeDebuggers>>
  /\ IF ValidateInput(a) # ""
     THEN /\ pc' = [pc EXCEPT ![w] = "done"]
          /\ result' = [result EXCEPT ![w] = createErrorResponse(<<ValidateInput(a)>>)]
          /\ issued' = [issued EXCEPT ![w] = NoCalls]
          /\ args' = [args EXCEPT ![w] = a]
          /\ UNCHANGED <<tabId, files, resp, caught>>
     ELSE /\ pc' = [pc EXCEPT ![w] = "tabs.query"]
          /\ args' = [args EXCEPT ![w] = a]
          /\ result' = [result EXCEPT ![w] = NoResult]
          /\ issued' = [issued EXCEPT ![w] = NoCalls]
          /\ UNCHANGED <<tabId, files, resp, caught>>

\* variant: a remote source is staged even when a local path is given
AfterTabsQueryStagesFirst(w) ==
  /\ pc[w] = "tabs.query"
  /\ UNCHANGED <<stageVars, utilVars>>
  /\ UNCHANGED activeDebuggers
  /\ \E r \in QueryOutcomes :
       IF ~r.ok
       THEN Catch(w, r.message)
       ELSE IF r.tab = NoTab
       THEN Return(w, createErrorResponse(<<"No active tab found">>))
       ELSE IF ~Falsy(args[w].fileUrl) \/ ~Falsy(args[w].base64Data)
       THEN /\ pc' = [pc EXCEPT ![w] = "stage"]
            /\ resp' = [resp EXCEPT ![w] = NoResp]
            /\ tabId' = [tabId EXCEPT ![w] = r.tab]
            /\ args' = [args EXCEPT ![w] = NoArgs]
            /\ UNCHANGED <<hostVars, result, caught, issued, files>>
       ELSE IssueGetTargets(w, r.tab, <<args[w].filePath>>)

\* tabs.query settled with r, the active tab as the browser reports it when
\* the workflow resumes: tabId, then files or the stager, then attachDebugger
AfterTabsQuery(w) ==
  /\ pc[w] = "tabs.query"
  /\ UNCHANGED <<stageVars, utilVars>>
  /\ UNCHANGED activeDebuggers
  /\ \E r \in QueryOutcomes :
       IF ~r.ok
       THEN Catch(w, r.message)
       ELSE IF r.tab = NoTab
       THEN Return(w, createErrorResponse(<<"No active tab found">>))
       ELSE IF ~Falsy(args[w].filePath)
       THEN IssueGetTargets(w, r.tab, <<args[w].filePath>>)
       ELSE IF ~Falsy(args[w].fileUrl) \/ ~Falsy(args[w].base64Data)
       THEN \* prepareFileFromRemote: listener, timer, sendMessage
            /\ pc' = [pc EXCEPT ![w] = "stage"]
            /\ resp' = [resp EXCEPT ![w] = NoResp]
            /\ tabId' = [tabId EXCEPT ![w] = r.tab]
            /\ args' = [args EXCEPT ![w] = NoArgs]
            /\ UNCHANGED <<hostVars, result, caught, issued, files>>
       ELSE IssueGetTargets(w, r.tab, <<>>)

\* variant: tempFilePath is not tested
StageResolvedUnchecked(w, tempFilePath) ==
  /\ pc[w] = "stage"
  /\ UNCHANGED <<stageVars, utilVars>>
  /\ UNCHANGED activeDebuggers
  /\ IssueGetTargets(w, tabId[w], <<tempFilePath>>)

\* prepareFileFromRemote resolved with tempFilePath
StageResolved(w, tempFilePath) ==
  /\ pc[w] = "stage"
  /\ UNCHANGED <<stageVars, utilVars>>
  /\ UNCHANGED activeDebuggers
  /\ IF Falsy(tempFilePath)
     THEN Return(w, createErrorResponse(<<"Failed to prepare file for upload">>))
     ELSE IssueGetTargets(w, tabId[w], <<tempFilePath>>)

\* handleMessage on the matching file_operation_response
StageResponse(w, success, filePath) ==
  StageResolved(w, ResponseValue([success |-> success, filePath |-> filePath]))

\* variant: no timer is set
StageTimeoutNever(w) ==
  /\ pc[w] = "stage"
  /\ FALSE
  /\ UNCHANGED <<vars, stageVars, utilVars>>

\* the 30 s timer fires
StageTimeout(w) == StageResolved(w, Null)

\* chrome.runtime.sendMessage rejects
StageSendFailure(w) == StageResolved(w, Null)

\* await chrome.debugger.attach({ tabId }, '1.3'): the call is issued
IssueAttach(w) ==
  LET t == tabId[w]
      ok == AttachOk(t)
  IN /\ debuggee' = IF ok THEN [debuggee EXCEPT ![t] = OurId] ELSE debuggee
     /\ UNCHANGED openTabs
     /\ pc' = [pc EXCEPT ![w] = "attach"]
     /\ resp' = [resp EXCEPT ![w] =
                   IF ok THEN Fulfilled ELSE Rejected("Cannot attach to this target")]
     /\ issued' = [issued EXCEPT ![w].attach = Settled(ok)]
     /\ UNCHANGED <<result, caught>>
     /\ KeepLocals

\* getTargets settled: the rest of attachDebugger up to chrome.debugger.attach
AfterGetTargets(w) ==
  /\ pc[w] = "getTargets"
  /\ UNCHANGED <<stageVars, utilVars>>
  /\ UNCHANGED activeDebuggers
  /\ LET d == AttachDecision(resp[w].target)
     IN CASE d = "noop" -> SendCommand(w, "DOM.enable")
          [] d = "conflict" -> Catch(w, ConflictMessage)
          [] OTHER -> IssueAttach(w)

\* attach settled: activeDebuggers.set, then DOM.enable
AfterAttach(w) ==
  /\ pc[w] = "attach"
  /\ UNCHANGED <<stageVars, utilVars>>
  /\ IF resp[w].ok
     THEN /\ activeDebuggers' = activeDebuggers \cup {tabId[w]}
          /\ SendCommand(w, "DOM.enable")
     ELSE /\ UNCHANGED activeDebuggers
          /\ Catch(w, resp[w].message)

\* variant: the outcome of DOM.enable is not awaited
AfterDomEnableIgnoresFailure(w) ==
  /\ pc[w] = "DOM.enable"
  /\ UNCHANGED <<stageVars, utilVars>>
  /\ UNCHANGED activeDebuggers
  /\ SendCommand(w, "Runtime.enable")

\* DOM.enable settled
AfterDomEnable(w) ==
  /\ pc[w] = "DOM.enable"
  /\ UNCHANGED <<stageVars, utilVars>>
  /\ UNCHANGED activeDebuggers
  /\ IF resp[w].ok THEN SendCommand(w, "Runtime.enable")
                   ELSE Catch(w, resp[w].message)

AfterRuntimeEnable(w) ==
  /\ pc[w] = "Runtime.enable"
  /\ UNCHANGED <<stageVars, utilVars>>
  /\ UNCHANGED activeDebuggers
  /\ IF resp[w].ok THEN SendCommand(w, "DOM.getDocument")
                   ELSE Catch(w, resp[w].message)

AfterGetDocument(w) ==
  /\ pc[w] = "DOM.getDocument"
  /\ UNCHANGED <<stageVars, utilVars>>
  /\ UNCHANGED activeDebuggers
  /\ IF resp[w].ok THEN SendCommand(w, "DOM.querySelector")
                   ELSE Catch(w, resp[w].message)

\* querySelector settled; nodeId is the answer of a fulfilled call
AfterQuerySelector(w, nodeId) ==
  /\ pc[w] = "DOM.querySelector"
  /\ UNCHANGED <<stageVars, utilVars>>
  /\ UNCHANGED activeDebuggers
  /\ IF ~resp[w].ok THEN Catch(w, resp[w].message)
     ELSE IF NodeMissing(nodeId) THEN Catch(w, NotFoundMessage)
     ELSE SendCommand(w, "DOM.describeNode")

\* describeNode settled; node is the answer of a fulfilled call
AfterDescribeNode(w, node) ==
  /\ pc[w] = "DOM.describeNode"
  /\ UNCHANGED <<stageVars, utilVars>>
  /\ UNCHANGED activeDebuggers
  /\ IF ~resp[w].ok THEN Catch(w, resp[w].message)
     ELSE IF node.nodeName # "INPUT" THEN Catch(w, NotInputMessage)
     ELSE IF ~IsFileInput(node.attributes) THEN Catch(w, NotFileInputMessage)
     ELSE SendCommand(w, "DOM.setFileInputFiles")

AfterSetFileInputFiles(w) ==
  /\ pc[w] = "DOM.setFileInputFiles"
  /\ UNCHANGED <<stageVars, utilVars>>
  /\ UNCHANGED activeDebuggers
  /\ IF resp[w].ok THEN SendCommand(w, "Runtime.evaluate")
                   ELSE Catch(w, resp[w].message)

\* evaluate settled: detachDebugger up to chrome.debugger.detach, or the
\* success response when detachDebugger returns at once
AfterEvaluate(w) ==
  /\ pc[w] = "Runtime.evaluate"
  /\ UNCHANGED <<stageVars, utilVars>>
  /\ UNCHANGED activeDebuggers
  /\ IF ~resp[w].ok THEN Catch(w, resp[w].message)
     ELSE IF HasDebugger(activeDebuggers, tabId[w])
     THEN IssueDetach(w, "detach", "")
     ELSE Return(w, createSuccessResponse(files[w]))

\* detach of the success path settled: finally, then the success response
AfterDetach(w) ==
  /\ pc[w] = "detach"
  /\ UNCHANGED <<stageVars, utilVars>>
  /\ activeDebuggers' = AfterDetachMap(activeDebuggers, tabId[w], resp[w].ok)
  /\ Return(w, createSuccessResponse(files[w]))

\* detach of the catch block settled: finally, then the error response
AfterCatchDetach(w) ==
  /\ pc[w] = "catch.detach"
  /\ UNCHANGED <<stageVars, utilVars>>
  /\ activeDebuggers' = AfterDetachMap(activeDebuggers, tabId[w], resp[w].ok)
  /\ Return(w, createErrorResponse(UploadError(caught[w])))

\* ------------------------------------------------------------------------
\* Events of the browser
\* ------------------------------------------------------------------------

\* variant: the listener leaves the entry to the workflow
TabRemovedKeepsEntry(t) ==
  /\ t \in openTabs
  /\ UNCHANGED <<stageVars, utilVars>>
  /\ openTabs' = openTabs \ {t}
  /\ debuggee' = [debuggee EXCEPT ![t] = Detached]
  /\ UNCHANGED activeDebuggers
  /\ UNCHANGED <<pc, args, tabId, files, resp, caught, result, issued>>

\* a tab is closed: chrome.tabs.onRemoved listener, cleanupDebugger
TabRemoved(t) ==
  /\ t \in openTabs
  /\ UNCHANGED <<stageVars, utilVars>>
  /\ openTabs' = openTabs \ {t}
  /\ debuggee' = [debuggee EXCEPT ![t] = Detached]
  /\ activeDebuggers' = IF HasDebugger(activeDebuggers, t)
                        THEN activeDebuggers \ {t}
                        ELSE activeDebuggers
  /\ UNCHANGED <<pc, args, tabId, files, resp, caught, result, issued>>

\* another extension or DevTools attaches to a tab
ExternalAttach(t) ==
  /\ t \in openTabs
  /\ debuggee[t] = Detached
  /\ UNCHANGED <<stageVars, utilVars>>
  /\ debuggee' = [debuggee EXCEPT ![t] = OtherId]
  /\ UNCHANGED <<openTabs, activeDebuggers, pc, args, tabId, files, resp,
                 caught, result, issued>>

\* it detaches again
ExternalDetach(t) ==
  /\ t \in openTabs
  /\ debuggee[t] = OtherId
  /\ UNCHANGED <<stageVars, utilVars>>
  /\ debuggee' = [debuggee EXCEPT ![t] = Detached]
  /\ UNCHANGED <<openTabs, activeDebuggers, pc, args, tabId, files, resp,
                 caught, result, issued>>

\* ------------------------------------------------------------------------
\* prepareFileFromRemote, from callback to callback
\* ------------------------------------------------------------------------

\* prepareFileFromRemote is invoked: the executor of the promise runs
Stage ==
  /\ Len(calls) < MaxStageCalls
  /\ calls' = Append(calls, StartedCall)
  /\ inbound' = NoMessage
  /\ UNCHANGED <<vars, utilVars>>

\* chrome.runtime.onMessage dispatches message to every registered listener
Deliver(message) ==
  /\ \E id \in DOMAIN calls : calls[id].listener
  /\ calls' = [id \in DOMAIN calls |->
                 IF calls[id].listener
                 THEN handleMessage(calls[id], id, message)
                 ELSE calls[id]]
  /\ inbound' = <<message>>
  /\ UNCHANGED <<vars, utilVars>>

\* the 30 s timer of invocation id fires
Timeout(id) ==
  /\ id \in DOMAIN calls
  /\ calls[id].timer = "armed"
  /\ calls' = [calls EXCEPT ![id] = OnTimeout(@)]
  /\ inbound' = NoMessage
  /\ UNCHANGED <<vars, utilVars>>

\* the promise of chrome.runtime.sendMessage is rejected
SendRejected(id) ==
  /\ id \in DOMAIN calls
  /\ calls[id].send = "inflight"
  /\ calls' = [calls EXCEPT ![id] = OnSendRejected(@)]
  /\ inbound' = NoMessage
  /\ UNCHANGED <<vars, utilVars>>

\* the promise of chrome.runtime.sendMessage is fulfilled: nothing is chained
SendFulfilled(id) ==
  /\ id \in DOMAIN calls
  /\ calls[id].send = "inflight"
  /\ calls' = [calls EXCEPT ![id].send = "fulfilled"]
  /\ inbound' = NoMessage
  /\ UNCHANGED <<vars, utilVars>>

\* ------------------------------------------------------------------------
\* compressImage, from encode pass to encode pass
\* ------------------------------------------------------------------------

\* scale, quality: numbers of the code in millionths (1.0 is 1000000)
DefaultScale == 1000000

DefaultQuality == 800000

\* COMPRESSION_CONFIG
MAX_ATTEMPTS == 10

MIN_QUALITY == 200000

MIN_SCALE == 300000

QUALITY_THRESHOLD == 300000

REDUCTION_FACTOR == 850000

\* x * f, for a factor f given in millionths with at most two decimals
Times(x, f) == (x * (f \div 10000)) \div 100

\* Math.max
Max(a, b) == IF a >= b THEN a ELSE b

\* largest base64 payload an encode pass produces in the model
MaxPayload == 3

\* what the FileReader of compressImageOnce yields: a header, a comma, the
\* base64 payload
DataUrls == { <<"h", ",">> \o [i \in 1..n |-> "A"] : n \in 0..MaxPayload }

NoDataUrl == <<>>

\* options.scale, options.quality, options.maxSizeBytes when they are given
Scales == {200000, 320000, DefaultScale}

Qualities == {100000, 250000, QUALITY_THRESHOLD, DefaultQuality, 900000}

MaxSizes == 0..(MaxPayload - 1)

OptionValues == [scale |-> Scales, quality |-> Qualities, maxSizeBytes |-> MaxSizes]

\* the options object: every field is optional
Options == UNION { { o \in [F -> Scales \cup Qualities \cup MaxSizes] :
                        \A f \in F : o[f] \in OptionValues[f] } :
                   F \in SUBSET {"scale", "quality", "maxSizeBytes"} }

\* destructuring with a default: const { name = default } = options
Field(options, name, default) ==
  IF name \in DOMAIN options THEN options[name] ELSE default

\* !maxSizeBytes
NoSizeLimit(options) ==
  \/ "maxSizeBytes" \notin DOMAIN options
  \/ options.maxSizeBytes = 0

\* index of the first comma of s, 0 when there is none
FirstComma(s) ==
  IF \E i \in 1..Len(s) : s[i] = ","
  THEN CHOOSE i \in 1..Len(s) : s[i] = "," /\ \A j \in 1..(i - 1) : s[j] # ","
  ELSE 0

\* String.prototype.split(',')
RECURSIVE Split(_)
Split(s) ==
  LET i == FirstComma(s)
  IN IF i = 0 THEN <<s>>
     ELSE <<SubSeq(s, 1, i - 1)>> \o Split(SubSeq(s, i + 1, Len(s)))

getBase64Size(dataUrl) ==
  LET parts == Split(dataUrl)
      base64 == IF Len(parts) >= 2 /\ parts[2] # <<>> THEN parts[2] ELSE dataUrl
  IN Len(base64)

NoCompress == [pc |-> "idle"]

\* currentQuality > COMPRESSION_CONFIG.QUALITY_THRESHOLD
QualityStillHighNever(quality) == FALSE
QualityStillHigh(quality) == quality > QUALITY_THRESHOLD

ReduceQuality(quality) == Max(MIN_QUALITY, Times(quality, REDUCTION_FACTOR))

ReduceScaleNoFloor(scale) == Times(scale, REDUCTION_FACTOR)
ReduceScale(scale) == Max(MIN_SCALE, Times(scale, REDUCTION_FACTOR))

\* the strategy of one iteration: first reduce quality, then reduce scale
AdjustQualityUnfloored(c) ==
  [c EXCEPT !.currentQuality = Times(@, REDUCTION_FACTOR)]
Adjust(c) ==
  IF QualityStillHigh(c.currentQuality)
  THEN [c EXCEPT !.currentQuality = ReduceQuality(@)]
  ELSE [c EXCEPT !.currentScale = ReduceScale(@)]

\* the condition of the while loop
LoopContinuesWhateverSize(c) == c.attempts < MAX_ATTEMPTS
LoopContinues(c) ==
  /\ getBase64Size(c.result) > c.maxSizeBytes
  /\ c.attempts < MAX_ATTEMPTS

\* one iteration of the loop, up to the await of its compressImageOnce
Iterate(c) ==
  [Adjust([c EXCEPT !.attempts = @ + 1]) EXCEPT !.passes = @ + 1]

\* compressImage(imageDataUrl, options) up to its first await
CompressImage ==
  /\ compress.pc = "idle"
  /\ \E options \in Options :
        compress' =
          [pc |-> IF NoSizeLimit(options) THEN "once" ELSE "loop",
           scale |-> Field(options, "scale", DefaultScale),
           quality |-> Field(options, "quality", DefaultQuality),
           maxSizeBytes |-> Field(options, "maxSizeBytes", 0),
           currentScale |-> Field(options, "scale", DefaultScale),
           currentQuality |-> Field(options, "quality", DefaultQuality),
           attempts |-> 0,
           passes |-> 1,
           result |-> NoDataUrl]
  /\ UNCHANGED <<vars, stageVars, stitch, crop, formatVars>>

\* the pending compressImageOnce is fulfilled with dataUrl
AfterCompressImageOnce(dataUrl) ==
  /\ compress.pc \in {"once", "loop"}
  /\ LET c == [compress EXCEPT !.result = dataUrl]
     IN compress' = IF compress.pc = "loop" /\ LoopContinues(c)
                    THEN Iterate(c)
                    ELSE [c EXCEPT !.pc = "returned"]
  /\ UNCHANGED <<vars, stageVars, stitch, crop, formatVars>>

\* the pending compressImageOnce is rejected (the image does not decode, or
\* the canvas gives no 2D context): compressImage rejects with the same error
CompressImageOnceFails ==
  /\ compress.pc \in {"once", "loop"}
  /\ compress' = [compress EXCEPT !.pc = "thrown"]
  /\ UNCHANGED <<vars, stageVars, stitch, crop, formatVars>>

\* ------------------------------------------------------------------------
\* stitchImages, from decode to decode
\* ------------------------------------------------------------------------

\* largest side, in pixels, of a raster or of a canvas of the model
MaxSide == 2

\* largest number of parts handed to stitchImages
MaxParts == 2

\* part.y of a part
Offsets == -1..MaxSide

\* the parts of a call, each given by its y (its dataUrl decodes, or fails
\* to decode, when createImageBitmapFromUrl settles)
PartLists == UNION { [1..n -> Offsets] : n \in 0..MaxParts }

\* the bitmaps the parts decode to: the code never tests their width
Strips == [width : {1}, height : 1..MaxSide]

Decoded(img) == [ok |-> TRUE, img |-> img]

DecodeFailed == [ok |-> FALSE]

StripOutcomes == {Decoded(img) : img \in Strips} \cup {DecodeFailed}

NoStitch == [pc |-> "idle"]

\* lines 113-118: the source height that still fits above totalHeightPx
ClipHeightNone(dy, height, totalHeightPx) == height
ClipHeight(dy, height, totalHeightPx) ==
  IF dy + height > totalHeightPx THEN totalHeightPx - dy ELSE height

\* the body of the try block once the part is decoded
DrawPart(s, img) ==
  LET dy == s.parts[s.index]
      sHeight == ClipHeight(dy, img.height, s.totalHeightPx)
  IN IF sHeight <= 0
     THEN s
     ELSE [s EXCEPT !.drawn = Append(@, [part |-> s.index, img |-> img,
                                          dy |-> dy, sWidth |-> img.width,
                                          sHeight |-> sHeight])]

\* the catch block: console.error, nothing else
OnDecodeFailureEndsLoop(s) == [s EXCEPT !.index = Len(s.parts)]
OnDecodeFailure(s) == s

\* for (const part of parts): on to the next part, or return canvas
Advance(s) ==
  IF s.index < Len(s.parts)
  THEN [s EXCEPT !.index = @ + 1]
  ELSE [s EXCEPT !.index = @ + 1, !.pc = "returned"]

\* stitchImages(parts, totalWidthPx, totalHeightPx) up to its first await;
\* ctx tells whether getContext('2d') gave a context
StitchImages ==
  /\ stitch.pc = "idle"
  /\ \E parts \in PartLists, totalWidthPx \in 1..MaxSide,
        totalHeightPx \in 1..MaxSide, ctx \in BOOLEAN :
        stitch' = [pc |-> IF ~ctx THEN "thrown"
                          ELSE IF parts = <<>> THEN "returned" ELSE "decoding",
                   parts |-> parts,
                   totalWidthPx |-> totalWidthPx,
                   totalHeightPx |-> totalHeightPx,
                   canvas |-> [width |-> totalWidthPx, height |-> totalHeightPx],
                   index |-> 1,
                   drawn |-> <<>>]
  /\ UNCHANGED <<vars, stageVars, compress, crop, formatVars>>

\* createImageBitmapFromUrl(part.dataUrl) settles with outcome
AfterDecode(outcome) ==
  /\ stitch.pc = "decoding"
  /\ stitch' = Advance(IF outcome.ok
                       THEN DrawPart(stitch, outcome.img)
                       ELSE OnDecodeFailure(stitch))
  /\ UNCHANGED <<vars, stageVars, compress, crop, formatVars>>

\* ------------------------------------------------------------------------
\* cropAndResizeImage
\* ------------------------------------------------------------------------

Coords == (0 - MaxSide)..MaxSide

\* cropRectPx
Rects == [x : Coords, y : Coords, width : Coords, height : Coords]

\* the source rasters
Rasters == [width : 1..MaxSide, height : 1..MaxSide]

\* dpr, and targetWidthOpt / targetHeightOpt (0 when not given)
Resizes == { [dpr |-> 1, targetWidthOpt |-> 0, targetHeightOpt |-> 0],
             [dpr |-> 2, targetWidthOpt |-> 1, targetHeightOpt |-> 0],
             [dpr |-> 2, targetWidthOpt |-> 1, targetHeightOpt |-> 1] }

NoCrop == [pc |-> "idle"]

InvalidCropSize ==
  "Invalid calculated crop size (<=0). Element may not be visible or fully captured."

NoContext == "Unable to get canvas context"

\* lines 148-167: the crop area brought within the image boundaries
ClampKeepsSize(rect, img) ==
  LET sx == IF rect.x < 0 THEN 0 ELSE rect.x
      sy == IF rect.y < 0 THEN 0 ELSE rect.y
  IN [sx |-> sx, sy |-> sy,
      sWidth |-> IF sx + rect.width > img.width THEN img.width - sx ELSE rect.width,
      sHeight |-> IF sy + rect.height > img.height THEN img.height - sy ELSE rect.height]
Clamp(rect, img) ==
  LET sx == IF rect.x < 0 THEN 0 ELSE rect.x
      sy == IF rect.y < 0 THEN 0 ELSE rect.y
      sWidth == IF rect.x < 0 THEN rect.width + rect.x ELSE rect.width
      sHeight == IF rect.y < 0 THEN rect.height + rect.y ELSE rect.height
  IN [sx |-> sx, sy |-> sy,
      sWidth |-> IF sx + sWidth > img.width THEN img.width - sx ELSE sWidth,
      sHeight |-> IF sy + sHeight > img.height THEN img.height - sy ELSE sHeight]

\* lines 169-173
InvalidCrop(s) == s.sWidth <= 0 \/ s.sHeight <= 0

\* lines 175-178
FinalCanvas(resize, s) ==
  [width |-> IF resize.targetWidthOpt # 0
             THEN resize.targetWidthOpt * resize.dpr ELSE s.sWidth,
   height |-> IF resize.targetHeightOpt # 0
              THEN resize.targetHeightOpt * resize.dpr ELSE s.sHeight]

\* cropAndResizeImage(originalDataUrl, cropRectPx, dpr, targetWidthOpt,
\* targetHeightOpt) up to its await
CropAndResizeImage ==
  /\ crop.pc = "idle"
  /\ \E rect \in Rects, resize \in Resizes :
        crop' = [pc |-> "decoding", cropRectPx |-> rect, resize |-> resize]
  /\ UNCHANGED <<vars, stageVars, compress, stitch, formatVars>>

\* createImageBitmapFromUrl(originalDataUrl) is fulfilled with img; ctx tells
\* whether getContext('2d') gives a context
AfterCropDecode(img, ctx) ==
  /\ crop.pc = "decoding"
  /\ LET s == Clamp(crop.cropRectPx, img)
     IN crop' =
          IF InvalidCrop(s)
          THEN [pc |-> "thrown", cropRectPx |-> crop.cropRectPx,
                resize |-> crop.resize, img |-> img, error |-> InvalidCropSize]
          ELSE IF ~ctx
          THEN [pc |-> "thrown", cropRectPx |-> crop.cropRectPx,
                resize |-> crop.resize, img |-> img, error |-> NoContext]
          ELSE [pc |-> "returned", cropRectPx |-> crop.cropRectPx,
                resize |-> crop.resize, img |-> img,
                canvas |-> FinalCanvas(crop.resize, s),
                drawn |-> s]
  /\ UNCHANGED <<vars, stageVars, compress, stitch, formatVars>>

\* createImageBitmapFromUrl(originalDataUrl) is rejected
CropDecodeFails ==
  /\ crop.pc = "decoding"
  /\ crop' = [pc |-> "failed", cropRectPx |-> crop.cropRectPx,
              resize |-> crop.resize]
  /\ UNCHANGED <<vars, stageVars, compress, stitch, formatVars>>

\* ------------------------------------------------------------------------
\* response-formatter.ts
\* ------------------------------------------------------------------------

\* enum ResponseFormat
ResponseFormats == {"json", "yaml"}

defaultConfig == [format |-> "yaml", prettyJson |-> FALSE]

\* Partial<ResponseFormatterConfig>
PartialConfigs ==
  {[format |-> f, prettyJson |-> p] : f \in ResponseFormats, p \in BOOLEAN}
    \cup {[format |-> f] : f \in ResponseFormats}
    \cup {[prettyJson |-> p] : p \in BOOLEAN}

\* calls made to the formatter in one behaviour of the model
MaxFormatCalls == 3

\* variant: the fields not given fall back to their defaults
SpreadOverDefaults(a, b) ==
  [f \in DOMAIN a \cup DOMAIN b |-> IF f \in DOMAIN b THEN b[f] ELSE defaultConfig[f]]

\* { ...a, ...b }
Spread(a, b) ==
  [f \in DOMAIN a \cup DOMAIN b |-> IF f \in DOMAIN b THEN b[f] ELSE a[f]]

setResponseFormat(config) ==
  /\ Len(formatCalls) < MaxFormatCalls
  /\ currentConfig' = Spread(currentConfig, config)
  /\ formatCalls' = Append(formatCalls, [op |-> "set", config |-> config])
  /\ UNCHANGED <<vars, stageVars, imageVars>>

resetResponseFormatKeeps ==
  /\ Len(formatCalls) < MaxFormatCalls
  /\ currentConfig' = currentConfig
  /\ formatCalls' = Append(formatCalls, [op |-> "reset"])
  /\ UNCHANGED <<vars, stageVars, imageVars>>
resetResponseFormat ==
  /\ Len(formatCalls) < MaxFormatCalls
  /\ currentConfig' = defaultConfig
  /\ formatCalls' = Append(formatCalls, [op |-> "reset"])
  /\ UNCHANGED <<vars, stageVars, imageVars>>

\* getResponseFormat(): a copy of currentConfig is returned
getResponseFormat ==
  /\ Len(formatCalls) < MaxFormatCalls
  /\ formatCalls' = Append(formatCalls, [op |-> "get", returned |-> currentConfig])
  /\ UNCHANGED <<currentConfig, vars, stageVars, imageVars>>

\* formatResponse(data, overrideFormat); Undefined stands for no override,
\* dumps tells whether yaml.dump(data) returns or throws. The text returned
\* is recorded by its syntax, a JSON text also by its indentation
formatResponse(overrideFormat, dumps) ==
  LET formatAsJson ==
        IF currentConfig.prettyJson THEN [syntax |-> "json", indented |-> TRUE]
        ELSE [syntax |-> "json", indented |-> FALSE]
      formatAsYaml ==
        IF dumps THEN [syntax |-> "yaml", indented |-> FALSE] ELSE formatAsJson
      format == IF overrideFormat = Undefined THEN currentConfig.format
                ELSE overrideFormat
  IN /\ Len(formatCalls) < MaxFormatCalls
     /\ formatCalls' = Append(formatCalls,
                              [op |-> "format", overrideFormat |-> overrideFormat,
                               text |-> IF format = "yaml" THEN formatAsYaml
                                        ELSE formatAsJson])
     /\ UNCHANGED <<currentConfig, vars, stageVars, imageVars>>

\* stringify(data): formatResponse(data)
stringify(dumps) == formatResponse(Undefined, dumps)

\* ------------------------------------------------------------------------
\* Specification
\* ------------------------------------------------------------------------

Init ==
  /\ openTabs \in {S \in SUBSET Tabs : Cardinality(S) <= MaxOpenTabs}
  /\ debuggee = [t \in Tabs |-> Detached]
  /\ activeDebuggers = {}
  /\ pc = [w \in Workflows |-> "idle"]
  /\ args = [w \in Workflows |-> NoArgs]
  /\ tabId = [w \in Workflows |-> NoTab]
  /\ files = [w \in Workflows |-> <<>>]
  /\ resp = [w \in Workflows |-> NoResp]
  /\ caught = [w \in Workflows |-> ""]
  /\ result = [w \in Workflows |-> NoResult]
  /\ issued = [w \in Workflows |-> NoCalls]
  /\ calls = <<>>
  /\ inbound = NoMessage
  /\ compress = NoCompress
  /\ stitch = NoStitch
  /\ crop = NoCrop
  /\ currentConfig = defaultConfig
  /\ formatCalls = <<>>

Next ==
  \/ \E w \in Workflows, a \in Params : Execute(w, a)
  \/ \E w \in Workflows : AfterTabsQuery(w)
  \/ \E w \in Workflows, success \in BOOLEAN, p \in {Undefined, StagedPath} :
        StageResponse(w, success, p)
  \/ \E w \in Workflows : StageTimeout(w)
  \/ \E w \in Workflows : StageSendFailure(w)
  \/ \E w \in Workflows : AfterGetTargets(w)
  \/ \E w \in Workflows : AfterAttach(w)
  \/ \E w \in Workflows : AfterDomEnable(w)
  \/ \E w \in Workflows : AfterRuntimeEnable(w)
  \/ \E w \in Workflows : AfterGetDocument(w)
  \/ \E w \in Workflows, nodeId \in NodeIds : AfterQuerySelector(w, nodeId)
  \/ \E w \in Workflows, node \in Nodes : AfterDescribeNode(w, node)
  \/ \E w \in Workflows : AfterSetFileInputFiles(w)
  \/ \E w \in Workflows : AfterEvaluate(w)
  \/ \E w \in Workflows : AfterDetach(w)
  \/ \E w \in Workflows : AfterCatchDetach(w)
  \/ \E t \in Tabs : TabRemoved(t)
  \/ \E t \in Tabs : ExternalAttach(t)
  \/ \E t \in Tabs : ExternalDetach(t)

Spec == Init /\ [][Next]_vars

\* the stager on its own: invocations, inbound messages, timers, sends
NextStage ==
  \/ Stage
  \/ \E message \in Messages : Deliver(message)
  \/ \E id \in Requests : Timeout(id)
  \/ \E id \in Requests : SendRejected(id)
  \/ \E id \in Requests : SendFulfilled(id)

SpecStage == Init /\ [][NextStage]_stageVars

\* compressImage on its own: one invocation and its encode passes
NextCompress ==
  \/ CompressImage
  \/ \E dataUrl \in DataUrls : AfterCompressImageOnce(dataUrl)
  \/ CompressImageOnceFails

SpecCompress == Init /\ [][NextCompress]_compress

\* stitchImages on its own
NextStitch ==
  \/ StitchImages
  \/ \E outcome \in StripOutcomes : AfterDecode(outcome)

SpecStitch == Init /\ [][NextStitch]_stitch

\* cropAndResizeImage on its own
NextCrop ==
  \/ CropAndResizeImage
  \/ \E img \in Rasters, ctx \in BOOLEAN : AfterCropDecode(img, ctx)
  \/ CropDecodeFails

SpecCrop == Init /\ [][NextCrop]_crop

\* the response formatter on its own
NextFormat ==
  \/ \E config \in PartialConfigs : setResponseFormat(config)
  \/ resetResponseFormat
  \/ getResponseFormat
  \/ \E overrideFormat \in ResponseFormats \cup {Undefined}, dumps \in BOOLEAN :
        formatResponse(overrideFormat, dumps)
  \/ \E dumps \in BOOLEAN : stringify(dumps)

SpecFormat == Init /\ [][NextFormat]_formatVars


\* ------------------------------------------------------------------------
\* Properties of the session manager and of execute()
\* ------------------------------------------------------------------------

InFlight(w) == pc[w] \notin {"idle", "done"}

AllReturned == \A w \in Workflows : ~InFlight(w)

\* pc values at which a chrome.debugger attach, sendCommand or detach is pending
DebuggerCalls == {"attach", "DOM.enable", "Runtime.enable", "DOM.getDocument",
                  "DOM.querySelector", "DOM.describeNode",
                  "DOM.setFileInputFiles", "Runtime.evaluate",
                  "detach", "catch.detach"}

\* workflow w takes a step that issues a chrome.debugger call
IssuesDebuggerCall(w) == pc'[w] # pc[w] /\ pc'[w] \in DebuggerCalls

\* workflow w attached the debugger to tab t itself and has not yet asked
\* for the detach
Holds(w, t) ==
  /\ InFlight(w)
  /\ tabId[w] = t
  /\ issued[w].attach = "ok"
  /\ issued[w].detach = "none"

\* number of file sources present in the arguments
SourceCount(a) ==
  (IF Falsy(a.filePath) THEN 0 ELSE 1) + (IF Falsy(a.fileUrl) THEN 0 ELSE 1)
    + (IF Falsy(a.base64Data) THEN 0 ELSE 1)

ValidationMessages == { <<"Selector is required for file upload">>,
                        <<"One of filePath, fileUrl, or base64Data must be provided">> }

\* the call of w ended in the validation of its arguments: nothing was asked
\* of the browser
FailedValidation(w) ==
  /\ pc[w] = "done"
  /\ result[w].isError
  /\ result[w].content \in ValidationMessages
  /\ issued[w] = NoCalls

\* C1: once every call has returned, activeDebuggers holds no entry.
C1_SessionsBalance == AllReturned => activeDebuggers = {}

\* a successful call and a failed call that both attached have returned
C1_Witness ==
  /\ AllReturned
  /\ \E w, v \in Workflows :
       /\ pc[w] = "done" /\ issued[w].attach = "ok" /\ ~result[w].isError
       /\ pc[v] = "done" /\ issued[v].attach = "ok" /\ result[v].isError

\* C2: a call whose attach succeeded has issued a detach by the time it
\* returns.
C2_DetachMatchesAttach ==
  \A w \in Workflows :
    pc[w] = "done" /\ issued[w].attach = "ok" => issued[w].detach # "none"

\* C3: a tab whose removal has been handled has no entry in activeDebuggers.
C3_RemovalIsLastWriter ==
  \A t \in Tabs : t \notin openTabs => t \notin activeDebuggers

\* C4: every entry of activeDebuggers stands for a tab the debugger of this
\* extension is attached to.
C4_EntryImpliesAttached ==
  \A t \in activeDebuggers : t \in openTabs /\ debuggee[t] = OurId

\* C5: no call issues a debugger call for a tab between the attach and the
\* detach of another call for that tab.
C5_NoInterleaving ==
  [][\A v \in Workflows :
       IssuesDebuggerCall(v) =>
         \A w \in Workflows \ {v} : ~Holds(w, tabId[v])]_vars

\* C6: a call that found the tab attached by another owner returns an error
\* and has issued no attach, no sendCommand and no detach.
C6_ConflictIssuesNothing ==
  \A w \in Workflows :
    pc[w] = "done" /\ result[w].content = UploadError(ConflictMessage)
      => result[w].isError /\ issued[w] = NoCalls

\* C7: attachDebugger on a tab that getTargets reports as attached by this
\* extension goes on to the first command without an attach call and without
\* a change of activeDebuggers.
C7_AcquireIdempotent ==
  [][\A w \in Workflows :
       pc[w] = "getTargets" /\ resp[w].target = OurId /\ pc'[w] # pc[w]
         => /\ pc'[w] = "DOM.enable"
            /\ issued'[w].attach = "none"
            /\ activeDebuggers' = activeDebuggers]_vars

\* a call is past an acquire that attached nothing
C7_Witness ==
  \E w \in Workflows : pc[w] = "DOM.enable" /\ issued[w].attach = "none"

\* C8: a detach is issued only for a tab that has an entry; detachDebugger
\* called with an entry issues it, and called without an entry it returns
\* with the map and the browser as they were.
C8_ReleaseIffOwned ==
  [][\A w \in Workflows :
       /\ issued[w].detach = "none" /\ issued'[w].detach # "none"
            => tabId[w] \in activeDebuggers
       /\ pc[w] = "Runtime.evaluate" /\ resp[w].ok /\ pc'[w] # pc[w]
            => IF tabId[w] \in activeDebuggers
               THEN pc'[w] = "detach" /\ issued'[w].detach # "none"
               ELSE /\ pc'[w] = "done"
                    /\ issued'[w].detach = "none"
                    /\ UNCHANGED <<activeDebuggers, openTabs, debuggee>>]_vars

\* one call returned success without a detach, another after its detach
C8_Witness ==
  \E w, v \in Workflows :
    /\ pc[w] = "done" /\ ~result[w].isError /\ issued[w].detach = "none"
    /\ pc[v] = "done" /\ ~result[v].isError /\ issued[v].detach = "ok"

\* C9: when the detach call was rejected, the call still returns what it
\* was about to return (success, or the error the catch block holds) and
\* the entry of its tab is gone.
C9_DetachFailureSwallowed ==
  [][\A w \in Workflows :
       pc[w] \in {"detach", "catch.detach"} /\ ~resp[w].ok /\ pc'[w] # pc[w]
         => /\ pc'[w] = "done"
            /\ tabId[w] \notin activeDebuggers'
            /\ result'[w] = IF pc[w] = "detach"
                            THEN createSuccessResponse(files[w])
                            ELSE createErrorResponse(UploadError(caught[w]))]_vars

\* a call returned success although its detach was rejected
C9_Witness ==
  \E w \in Workflows :
    pc[w] = "done" /\ issued[w].detach = "failed" /\ ~result[w].isError

StagingFailure == createErrorResponse(<<"Failed to prepare file for upload">>)

\* C11: while the stager is awaited the call has asked nothing of
\* chrome.debugger, and when the stager resolves with null (failed response,
\* timeout, send failure) the call returns the staging error at once, still
\* without an attach, a command or a detach.
C11_StagingBeforeSession ==
  /\ [](\A w \in Workflows : pc[w] = "stage" => issued[w] = NoCalls)
  /\ [][\A w \in Workflows :
          pc[w] = "stage"
            /\ (\/ StageTimeout(w)
                \/ StageSendFailure(w)
                \/ \E p \in {Undefined, StagedPath} : StageResponse(w, FALSE, p))
            => /\ pc'[w] = "done"
               /\ result'[w] = StagingFailure
               /\ issued'[w] = NoCalls
               /\ UNCHANGED <<activeDebuggers, openTabs, debuggee>>]_vars

\* one call failed in staging, another got its staged file and attached
C11_Witness ==
  \E w, v \in Workflows :
    /\ pc[w] = "done" /\ result[w] = StagingFailure /\ issued[w] = NoCalls
    /\ files[v] = <<StagedPath>> /\ issued[v].attach = "ok"

\* the (name, value) pairs of a flat attribute list, counted from its start
AttributePairs(attributes) ==
  {<<attributes[2 * k - 1], attributes[2 * k]>> : k \in 1..(Len(attributes) \div 2)}

\* a node DOM.setFileInputFiles may be used on
FileInputNode(node) ==
  node.nodeName = "INPUT" /\ <<"type", "file">> \in AttributePairs(node.attributes)

TypeMismatchMessages == {NotInputMessage, NotFileInputMessage}

\* the call of w ends in the catch block with message msg: it returns the
\* error with no entry for its tab, or has issued the detach of the entry
EndsInError(w, msg) ==
  \/ /\ pc'[w] = "done"
     /\ result'[w] = createErrorResponse(UploadError(msg))
     /\ tabId[w] \notin activeDebuggers'
  \/ /\ pc'[w] = "catch.detach"
     /\ caught'[w] = msg
     /\ issued'[w].detach # "none"

\* the detach of the catch block has settled: the error is returned and the
\* entry of the tab is gone
ReturnsError(w) ==
  /\ pc'[w] = "done"
  /\ result'[w] = createErrorResponse(UploadError(caught[w]))
  /\ tabId[w] \notin activeDebuggers'

\* C12: DOM.setFileInputFiles is issued only when describeNode answered with
\* an INPUT node whose attribute list holds the pair (type, file) at a pair
\* position; for every other node the call ends in an error without
\* set-files and with its session released.
C12_SetFilesOnlyOnFileInput ==
  [][\A w \in Workflows :
       /\ pc'[w] = "DOM.setFileInputFiles" /\ pc[w] # pc'[w]
            => /\ pc[w] = "DOM.describeNode" /\ resp[w].ok
               /\ \E node \in Nodes : FileInputNode(node) /\ AfterDescribeNode(w, node)
       /\ pc'[w] # pc[w] /\ pc[w] = "DOM.describeNode" /\ resp[w].ok
            => \A node \in Nodes :
                 AfterDescribeNode(w, node) =>
                   IF FileInputNode(node)
                   THEN pc'[w] = "DOM.setFileInputFiles"
                   ELSE \E msg \in TypeMismatchMessages : EndsInError(w, msg)
       /\ pc[w] = "catch.detach" /\ caught[w] \in TypeMismatchMessages
            /\ pc'[w] # pc[w]
            => ReturnsError(w)]_vars

\* one call is setting the files, another was refused for its node after
\* the detach of its session
C12_Witness ==
  \E w, v \in Workflows :
    /\ pc[w] = "DOM.setFileInputFiles"
    /\ pc[v] = "done"
    /\ result[v] = createErrorResponse(UploadError(NotFileInputMessage))
    /\ issued[v].detach = "ok"

\* C13: when querySelector answers without a nodeId or with nodeId 0 the
\* call ends in the not-found error: no describeNode, set-files or evaluate
\* is issued and the session is released before the call returns.
C13_MissingNodeEndsCall ==
  [][\A w \in Workflows :
       /\ pc'[w] # pc[w] /\ pc[w] = "DOM.querySelector" /\ resp[w].ok
            => \A nodeId \in {MissingNodeId, 0} :
                 AfterQuerySelector(w, nodeId) => EndsInError(w, NotFoundMessage)
       /\ pc[w] = "catch.detach" /\ caught[w] = NotFoundMessage /\ pc'[w] # pc[w]
            => ReturnsError(w)]_vars

\* a call returned the not-found error after the detach of its session
C13_Witness ==
  \E w \in Workflows :
    /\ pc[w] = "done"
    /\ result[w] = createErrorResponse(UploadError(NotFoundMessage))
    /\ issued[w].attach = "ok"
    /\ issued[w].detach = "ok"

\* C14: when Runtime.evaluate is rejected after set-files succeeded, the
\* call goes on to the release and returns success.
C14_DispatchFailureTolerated ==
  [][\A w \in Workflows :
       pc[w] = "Runtime.evaluate" /\ ~resp[w].ok /\ pc'[w] # pc[w]
         => \/ pc'[w] = "detach"
            \/ pc'[w] = "done" /\ ~result'[w].isError]_vars

\* pc values of a call whose DOM.setFileInputFiles was fulfilled
AfterSetFiles == {"Runtime.evaluate", "detach"}

\* the step belongs to the call of w
Moves(w) == pc'[w] # pc[w] \/ result'[w] # result[w]

\* C15: every call ends with a result: a rejected host call leads to the
\* catch block, a result is an error with a text or the success summary,
\* and success is returned only by a call whose set-files was fulfilled.
C15_FailuresAreResults ==
  [][\A w \in Workflows :
       Moves(w) =>
         /\ pc'[w] = "done"
              => /\ result'[w].content # <<>>
                 /\ result'[w].isError
                      = (result'[w].content # <<"File(s) uploaded successfully">>)
         /\ pc'[w] = "done" /\ ~result'[w].isError => pc[w] \in AfterSetFiles
         /\ pc'[w] \in AfterSetFiles /\ pc[w] \notin AfterSetFiles
              => pc[w] = "DOM.setFileInputFiles" /\ resp[w].ok
         /\ InFlight(w) /\ ~resp[w].ok /\ pc[w] \notin {"detach", "catch.detach"}
              => \/ pc'[w] = "catch.detach" /\ caught'[w] = resp[w].message
                 \/ /\ pc'[w] = "done"
                    /\ result'[w] = createErrorResponse(UploadError(resp[w].message))]_vars

\* one call returned success, another the error of a rejected command
C15_Witness ==
  \E w, v \in Workflows :
    /\ pc[w] = "done" /\ ~result[w].isError /\ issued[w].sent
    /\ pc[v] = "done"
    /\ result[v] = createErrorResponse(UploadError("protocol error"))

\* ------------------------------------------------------------------------
\* Properties of prepareFileFromRemote
\* ------------------------------------------------------------------------

\* message, the value of inbound, is the response to call id
IsResponseTo(message, id) ==
  /\ message # NoMessage
  /\ message[1].type = "file_operation_response"
  /\ message[1].responseToRequestId = id

\* C16: a call that has resolved has no listener registered any more.
C16_ListenerRemovedOnResolve ==
  \A id \in DOMAIN calls : calls[id].phase = "resolved" => ~calls[id].listener

\* C17: a call sends its request once and never again, and a call whose
\* timer fired is resolved with null, whatever arrives later.
C17_OneRequestTimeoutNull ==
  \A id \in DOMAIN calls :
    /\ calls[id].sent = 1
    /\ calls[id].timer = "fired"
         => calls[id].phase = "resolved" /\ calls[id].value = Null

\* the timer of a call fired and the successful response came afterwards
C17_Witness ==
  \E id \in DOMAIN calls :
    /\ calls[id].timer = "fired" /\ calls[id].value = Null /\ calls[id].sent = 1
    /\ IsResponseTo(inbound, id)
    /\ inbound[1].payload = [success |-> TRUE, filePath |-> StagedPath]

\* C18: a dispatched message resolves a pending call exactly if it is a
\* file_operation_response carrying the request id of that call; any other
\* message leaves the call, its timer and its listener as they were.
C18_OnlyOwnResponseResolves ==
  [][\A id \in DOMAIN calls :
       calls[id].phase = "pending" /\ inbound' # NoMessage
         => IF IsResponseTo(inbound', id)
            THEN calls'[id].phase = "resolved"
            ELSE calls'[id] = calls[id]]_stageVars

\* the response to call 2 was dispatched while call 1 was pending: call 1
\* still waits with its timer and its listener
C18_Witness ==
  /\ Len(calls) >= 2
  /\ IsResponseTo(inbound, 2)
  /\ calls[2].phase = "resolved"
  /\ calls[1].phase = "pending"
  /\ calls[1].timer = "armed"
  /\ calls[1].listener

\* C19 as stated: the matching response resolves the call with the file
\* path of the payload if the payload reports success, with null otherwise.
C19_SuccessGivesPath ==
  [][\A id \in DOMAIN calls :
       calls[id].phase = "pending" /\ IsResponseTo(inbound', id)
         => /\ calls'[id].phase = "resolved"
            /\ calls'[id].value = IF inbound'[1].payload.success
                                  THEN inbound'[1].payload.filePath
                                  ELSE Null]_stageVars

\* C19 amended: the matching response resolves the call with the file path
\* of the payload if the payload reports success and holds a non-empty file
\* path, with null otherwise.
C19_SuccessWithPathGivesPath ==
  [][\A id \in DOMAIN calls :
       calls[id].phase = "pending" /\ IsResponseTo(inbound', id)
         => /\ calls'[id].phase = "resolved"
            /\ calls'[id].value =
                 IF inbound'[1].payload.success
                      /\ inbound'[1].payload.filePath \notin {Undefined, ""}
                 THEN inbound'[1].payload.filePath
                 ELSE Null]_stageVars

\* one call got its path, another was just resolved with null by a response
\* that reports a failure
C19_Witness ==
  \E id, j \in DOMAIN calls :
    /\ calls[id].phase = "resolved" /\ calls[id].value = StagedPath
    /\ calls[j].phase = "resolved" /\ calls[j].value = Null
    /\ calls[j].timer = "cleared" /\ calls[j].send # "rejected"
    /\ IsResponseTo(inbound, j)
    /\ ~inbound[1].payload.success

\* C20: the rejection of the send leaves the call resolved (with null if it
\* was pending), its timer not running and its listener removed, and no
\* later step changes anything of the call.
C20_SendFailureEndsCall ==
  [][\A id \in DOMAIN calls :
       /\ calls[id].send = "inflight" /\ calls'[id].send = "rejected"
            => /\ calls'[id].phase = "resolved"
               /\ calls[id].phase = "pending" => calls'[id].value = Null
               /\ calls'[id].timer # "armed"
               /\ ~calls'[id].listener
       /\ calls[id].send = "rejected" => calls'[id] = calls[id]]_stageVars

\* the send of a pending call was rejected and the successful response was
\* dispatched afterwards
C20_Witness ==
  \E id \in DOMAIN calls :
    /\ calls[id].send = "rejected" /\ calls[id].timer = "cleared"
    /\ calls[id].value = Null /\ ~calls[id].listener
    /\ IsResponseTo(inbound, id)
    /\ inbound[1].payload = [success |-> TRUE, filePath |-> StagedPath]

\* ------------------------------------------------------------------------
\* Properties of compressImage
\* ------------------------------------------------------------------------

Min(a, b) == IF a <= b THEN a ELSE b

\* the call in progress, or ended, was given a size budget
WithBudget == compress.pc # "idle" /\ compress.maxSizeBytes > 0

\* the measured size of the last result exceeds the budget
OverBudget(c) == getBase64Size(c.result) > c.maxSizeBytes

\* the step issues one more compressImageOnce
NewPass == compress.pc = "loop" /\ compress'.passes > compress.passes

\* the parameters of the pass at hand are such that one more iteration would
\* leave both as they are
AtFloors(c) == c.currentQuality <= 300000 /\ c.currentScale = 300000

\* C21: a compressImage call with a size budget performs at most 10 encode
\* passes in total, the first pass included, whatever the sizes of the outputs.
C21_AtMostTenPasses == WithBudget => compress.passes <= 10

\* C22: in every encode pass of a call with a size budget the quality used is
\* at least 0.2, for every initial quality and every sequence of output sizes.
C22_QualityAtLeastFloor == WithBudget => compress.currentQuality >= 200000

\* C22 (amended): the quality used is never below the smaller of the initial
\* quality and 0.2.
C22_QualityAtLeastFloorOrInitial ==
  WithBudget => compress.currentQuality >= Min(compress.quality, 200000)

C22_Witness ==
  /\ WithBudget
  /\ compress.pc = "returned"
  /\ compress.currentQuality < compress.quality
  /\ compress.currentQuality <= 300000

\* C23: in every encode pass of a call with a size budget the scale used is
\* at least 0.3, for every initial scale and every sequence of output sizes.
C23_ScaleAtLeastFloor == WithBudget => compress.currentScale >= 300000

\* C23 (amended): the scale used is never below the smaller of the initial
\* scale and 0.3.
C23_ScaleAtLeastFloorOrInitial ==
  WithBudget => compress.currentScale >= Min(compress.scale, 300000)

C23_Witness ==
  /\ WithBudget
  /\ compress.pc = "returned"
  /\ compress.currentScale < compress.scale
  /\ compress.currentScale = 300000

\* C24: no encode pass uses a scale different from the initial scale while
\* the quality is still the initial quality.
C24_ScaleAfterQualityChanged ==
  (WithBudget /\ compress.currentScale # compress.scale)
     => compress.currentQuality # compress.quality

\* C24 (amended): no encode pass uses a scale different from the initial
\* scale while the quality is above the 0.3 threshold.
C24_ScaleAfterQualityLow ==
  (WithBudget /\ compress.currentScale # compress.scale)
     => compress.currentQuality <= 300000

C24_Witness ==
  /\ WithBudget
  /\ compress.currentScale # compress.scale
  /\ compress.currentQuality # compress.quality

\* C25: a call with a size budget ends after at most its cap of iterations,
\* each one counted, and an encode pass that is fulfilled never makes it
\* throw; a further pass is made only when the last result is over the
\* budget, so the result returned is that of the first pass within the budget;
\* an over-budget result is returned only with the attempt cap reached; the
\* result returned is that of the last pass.
C25_FirstWithinBudgetOrLast ==
  /\ [](WithBudget =>
          /\ compress.attempts <= MAX_ATTEMPTS
          /\ compress.passes = compress.attempts + 1
          /\ (compress.pc = "returned" /\ OverBudget(compress))
                => compress.attempts = MAX_ATTEMPTS)
  /\ [][compress.pc = "loop" =>
          /\ NewPass => (OverBudget(compress') /\ compress'.attempts = compress.attempts + 1)
          /\ \A dataUrl \in DataUrls :
               AfterCompressImageOnce(dataUrl) =>
                  /\ compress'.pc # "thrown"
                  /\ compress'.result = dataUrl
                  /\ (getBase64Size(dataUrl) <= compress.maxSizeBytes
                        => compress'.pc = "returned")]_compress

C25_Witness ==
  /\ WithBudget
  /\ compress.pc = "returned"
  /\ compress.passes > 1
  /\ ~OverBudget(compress)

\* C26: once the quality is at or below the 0.3 threshold and the scale at
\* its 0.3 floor, no further encode pass is made.
C26_NoPassAtFloors ==
  [][(compress.pc = "loop" /\ AtFloors(compress))
        => compress'.passes = compress.passes]_compress

\* ------------------------------------------------------------------------
\* Properties of stitchImages and cropAndResizeImage
\* ------------------------------------------------------------------------

\* the height of img that lies above the lower edge of the canvas when img is
\* drawn at dy
ClippedHeight(dy, img, totalHeightPx) == Min(img.height, totalHeightPx - dy)

\* C27: the canvas is totalWidthPx x totalHeightPx; every drawImage call has
\* a source height greater than 0 and ends at or above totalHeightPx; a part
\* whose clipped height is <= 0 is not drawn.
C27_CanvasSizeAndClipping ==
  /\ [](stitch.pc \in {"decoding", "returned"} =>
          /\ stitch.canvas.width = stitch.totalWidthPx
          /\ stitch.canvas.height = stitch.totalHeightPx
          /\ \A i \in DOMAIN stitch.drawn :
               /\ stitch.drawn[i].sHeight > 0
               /\ stitch.drawn[i].dy + stitch.drawn[i].sHeight <= stitch.totalHeightPx)
  /\ [][stitch.pc = "decoding" =>
          \A img \in Strips :
             (/\ AfterDecode(Decoded(img))
              /\ ClippedHeight(stitch.parts[stitch.index], img,
                               stitch.totalHeightPx) <= 0)
               => stitch'.drawn = stitch.drawn]_stitch

C27_Witness ==
  /\ stitch.pc = "returned"
  /\ \E i \in DOMAIN stitch.drawn :
        stitch.drawn[i].sHeight < stitch.drawn[i].img.height

\* C28: when a part fails to decode, stitchImages does not throw, draws
\* nothing for it and goes on to the next part; the parts are taken one by
\* one in order, and the canvas is returned after the last one.
C28_DecodeFailureSkipsPart ==
  /\ [](stitch.pc = "returned" =>
          (stitch.parts = <<>> \/ stitch.index = Len(stitch.parts) + 1))
  /\ [][stitch.pc = "decoding" =>
          /\ stitch'.index = stitch.index + 1
          /\ AfterDecode(DecodeFailed) =>
               /\ stitch'.pc = IF stitch.index = Len(stitch.parts)
                               THEN "returned" ELSE "decoding"
               /\ stitch'.drawn = stitch.drawn
               /\ stitch'.canvas = stitch.canvas]_stitch

C28_Witness ==
  /\ stitch.pc = "returned"
  /\ Len(stitch.parts) = 2
  /\ stitch.parts[1] = 0
  /\ Len(stitch.drawn) = 1
  /\ stitch.drawn[1].part = 2

\* the rectangle has no pixel in common with the raster
EmptyIntersection(rect, img) ==
  \/ Min(rect.x + rect.width, img.width) <= Max(rect.x, 0)
  \/ Min(rect.y + rect.height, img.height) <= Max(rect.y, 0)

\* C29: once the raster is decoded, cropAndResizeImage throws the invalid
\* crop size error exactly when the rectangle and the raster do not
\* intersect; otherwise the source region of its drawImage is their
\* intersection, non-empty and within the raster.
C29_CropIsIntersection ==
  /\ (crop.pc = "thrown" /\ crop.error = InvalidCropSize)
        => EmptyIntersection(crop.cropRectPx, crop.img)
  /\ (crop.pc = "returned" \/ (crop.pc = "thrown" /\ crop.error # InvalidCropSize))
        => ~EmptyIntersection(crop.cropRectPx, crop.img)
  /\ crop.pc = "returned" =>
        LET d == crop.drawn
            rect == crop.cropRectPx
        IN /\ d.sx = Max(rect.x, 0)
           /\ d.sy = Max(rect.y, 0)
           /\ d.sx + d.sWidth = Min(rect.x + rect.width, crop.img.width)
           /\ d.sy + d.sHeight = Min(rect.y + rect.height, crop.img.height)
           /\ 0 <= d.sx /\ 0 <= d.sy
           /\ d.sWidth > 0 /\ d.sHeight > 0
           /\ d.sx + d.sWidth <= crop.img.width
           /\ d.sy + d.sHeight <= crop.img.height

C29_Witness ==
  /\ crop.pc = "returned"
  /\ crop.cropRectPx.x = -1
  /\ crop.cropRectPx.width = 2
  /\ crop.drawn.sx = 0
  /\ crop.drawn.sWidth = 1

\* ------------------------------------------------------------------------
\* Properties of the response formatter
\* ------------------------------------------------------------------------

\* C30: right after a resetResponseFormat call the configuration is format
\* YAML, prettyJson false, whatever calls came before it.
C30_ResetRestoresDefault ==
  (formatCalls # <<>> /\ formatCalls[Len(formatCalls)].op = "reset")
     => currentConfig = [format |-> "yaml", prettyJson |-> FALSE]

C30_Witness ==
  /\ Len(formatCalls) >= 2
  /\ formatCalls[Len(formatCalls)].op = "reset"
  /\ formatCalls[Len(formatCalls) - 1].op = "set"
  /\ "format" \in DOMAIN formatCalls[Len(formatCalls) - 1].config
  /\ formatCalls[Len(formatCalls) - 1].config.format = "json"

\* ------------------------------------------------------------------------
\* Properties of the iterations of compressImage
\* ------------------------------------------------------------------------

\* C33: each retry changes exactly one of quality and scale and leaves the
\* other as it was: with the quality above 0.3 the quality becomes
\* max(0.2, quality * 0.85), otherwise the scale becomes
\* max(0.3, scale * 0.85).
C33_RetryChangesExactlyOne ==
  [][NewPass =>
       IF compress.currentQuality > 300000
       THEN /\ compress'.currentQuality =
                 Max(200000, (compress.currentQuality * 85) \div 100)
            /\ compress'.currentQuality # compress.currentQuality
            /\ compress'.currentScale = compress.currentScale
       ELSE /\ compress'.currentScale =
                 Max(300000, (compress.currentScale * 85) \div 100)
            /\ compress'.currentScale # compress.currentScale
            /\ compress'.currentQuality = compress.currentQuality]_compress

\* C39: from one encode pass to the next neither the quality nor the scale
\* grows.
C39_NeverIncreases ==
  [][NewPass =>
       /\ compress'.currentQuality <= compress.currentQuality
       /\ compress'.currentScale <= compress.currentScale]_compress

\* ------------------------------------------------------------------------
\* Properties of a stage call that has resolved
\* ------------------------------------------------------------------------

\* C38: once a call has resolved, no later event (response, timeout, send
\* failure) changes the value it resolved with.
C38_FirstEventFixesValue ==
  [][\A id \in DOMAIN calls :
       calls[id].phase = "resolved"
         => /\ calls'[id].phase = "resolved"
            /\ calls'[id].value = calls[id].value]_stageVars

\* the timer of a call fired, and its successful response was dispatched to
\* its listener afterwards
C38_Witness ==
  \E id \in DOMAIN calls :
    /\ calls[id].timer = "fired"
    /\ calls[id].value = Null
    /\ IsResponseTo(inbound, id)
    /\ inbound[1].payload = [success |-> TRUE, filePath |-> StagedPath]

\* ------------------------------------------------------------------------
\* Properties of the calls of the response formatter
\* ------------------------------------------------------------------------

\* C31 as stated: setResponseFormat changes the given fields only,
\* getResponseFormat returns the configuration, and every formatResponse or
\* stringify call writes the format of its override, or the configured
\* format without one, and leaves the configuration as it is.
C31_FormatIsOverrideOrConfigured ==
  [][/\ \A config \in PartialConfigs :
          setResponseFormat(config) =>
            \A f \in {"format", "prettyJson"} :
               currentConfig'[f] = IF f \in DOMAIN config THEN config[f]
                                   ELSE currentConfig[f]
     /\ getResponseFormat =>
          /\ formatCalls'[Len(formatCalls')].returned = currentConfig
          /\ currentConfig' = currentConfig
     /\ \A overrideFormat \in ResponseFormats, dumps \in BOOLEAN :
          formatResponse(overrideFormat, dumps) =>
            /\ currentConfig' = currentConfig
            /\ formatCalls'[Len(formatCalls')].text.syntax = overrideFormat
     /\ \A dumps \in BOOLEAN :
          stringify(dumps) =>
            /\ currentConfig' = currentConfig
            /\ formatCalls'[Len(formatCalls')].text.syntax = currentConfig.format]_formatVars

\* C31 amended: the same, where the text is in the format asked for whenever
\* yaml.dump returns, and is JSON when yaml.dump throws.
C31_FormatUnlessDumpFails ==
  [][/\ \A config \in PartialConfigs :
          setResponseFormat(config) =>
            \A f \in {"format", "prettyJson"} :
               currentConfig'[f] = IF f \in DOMAIN config THEN config[f]
                                   ELSE currentConfig[f]
     /\ getResponseFormat =>
          /\ formatCalls'[Len(formatCalls')].returned = currentConfig
          /\ currentConfig' = currentConfig
     /\ \A overrideFormat \in ResponseFormats, dumps \in BOOLEAN :
          formatResponse(overrideFormat, dumps) =>
            /\ currentConfig' = currentConfig
            /\ formatCalls'[Len(formatCalls')].text.syntax =
                 IF dumps THEN overrideFormat ELSE "json"
     /\ \A dumps \in BOOLEAN :
          stringify(dumps) =>
            /\ currentConfig' = currentConfig
            /\ formatCalls'[Len(formatCalls')].text.syntax =
                 IF dumps THEN currentConfig.format ELSE "json"]_formatVars

\* a call with the override JSON under the configured YAML, then a call
\* without override that writes YAML again
C31_Witness ==
  /\ Len(formatCalls) = 2
  /\ currentConfig.format = "yaml"
  /\ formatCalls[1].op = "format"
  /\ formatCalls[1].overrideFormat = "json"
  /\ formatCalls[1].text.syntax = "json"
  /\ formatCalls[2].op = "format"
  /\ formatCalls[2].overrideFormat = Undefined
  /\ formatCalls[2].text.syntax = "yaml"

\* C37: a call issues a detach only if its own attach was fulfilled: a call
\* whose acquire step failed, or found the tab attached already, issues none.
C37_DetachOnlyByAttacher ==
  [][\A w \in Workflows :
       (issued[w].detach = "none" /\ issued'[w].detach # "none")
         => issued[w].attach = "ok"]_vars

\* C40: a call given a local path goes on with the path alone as its file
\* list, whatever remote URL or inline data came with it, and the stager is
\* invoked only by a call without a local path.
C40_LocalPathWins ==
  [][\A w \in Workflows :
       /\ (pc[w] = "tabs.query" /\ pc'[w] = "stage") => Falsy(args[w].filePath)
       /\ (pc[w] = "tabs.query" /\ ~Falsy(args[w].filePath) /\ pc'[w] = "getTargets")
            => files'[w] = <<args[w].filePath>>
       /\ (pc[w] = "tabs.query" /\ ~Falsy(args[w].filePath))
            => pc'[w] \in {"tabs.query", "getTargets", "catch.detach", "done"}]_vars

\* one call given a path and a URL went on to attachDebugger with the path
\* as its file list while another with both sources awaits tabs.query
C40_Witness ==
  \E w, v \in Workflows :
     /\ pc[w] = "tabs.query"
     /\ ~Falsy(args[w].filePath)
     /\ ~Falsy(args[w].fileUrl)
     /\ pc[v] = "getTargets"
     /\ files[v] = <<"/tmp/a.png">>

\* C36: the removal of a tab that has an entry leaves, in that very step,
\* no entry and no attachment for the tab, and no workflow issues a
\* debugger call in the step.
C36_RemovalReleasesByItself ==
  [][\A t \in Tabs :
       (TabRemoved(t) /\ HasDebugger(activeDebuggers, t))
         => /\ ~HasDebugger(activeDebuggers', t)
            /\ debuggee'[t] = Detached
            /\ issued' = issued
            /\ pc' = pc]_vars

\* a tab was removed while the call that attached to it was awaiting a
\* command: the entry is gone, the call has issued no detach
C36_Witness ==
  \E w \in Workflows, t \in Tabs :
     /\ t \notin openTabs
     /\ Holds(w, t)
     /\ pc[w] = "DOM.getDocument"
     /\ ~HasDebugger(activeDebuggers, t)
     /\ debuggee[t] = Detached
     /\ \A v \in Workflows \ {w} : pc[v] = "idle"

\* C32 as stated: every debugger call, the detach included, is issued where
\* the fixed order has it, after its predecessor was fulfilled, and no
\* sendCommand before attachDebugger returned normally (the attach was
\* fulfilled, or the target was found attached by this extension).
C32_EveryCommandAfterPredecessor ==
  [][LET order == <<"attach", "DOM.enable", "Runtime.enable", "DOM.getDocument",
                    "DOM.querySelector", "DOM.describeNode",
                    "DOM.setFileInputFiles", "Runtime.evaluate", "detach">>
         acquired(w) ==
           \/ pc[w] = "attach" /\ resp[w].ok
           \/ pc[w] = "getTargets" /\ AttachDecision(resp[w].target) = "noop"
         inOrder(w, c) ==
           IF c = "attach" THEN pc[w] = "getTargets"
           ELSE IF c = "DOM.enable" THEN acquired(w)
           ELSE \E i \in 2..Len(order) :
                   order[i] = c /\ pc[w] = order[i - 1] /\ resp[w].ok
     IN \A w \in Workflows :
             IssuesDebuggerCall(w) =>
               inOrder(w, IF pc'[w] = "catch.detach" THEN "detach" ELSE pc'[w])]_vars

\* C32 amended: attach and the eight commands are issued in the fixed order,
\* each after its predecessor was fulfilled; the detach is issued after a
\* fulfilled Runtime.evaluate, or by the catch block after a failure
\* anywhere in the try block while the tab has an entry.
C32_OrderExceptCleanupDetach ==
  [][LET order == <<"attach", "DOM.enable", "Runtime.enable", "DOM.getDocument",
                    "DOM.querySelector", "DOM.describeNode",
                    "DOM.setFileInputFiles", "Runtime.evaluate", "detach">>
         acquired(w) ==
           \/ pc[w] = "attach" /\ resp[w].ok
           \/ pc[w] = "getTargets" /\ AttachDecision(resp[w].target) = "noop"
         inOrder(w, c) ==
           IF c = "attach" THEN pc[w] = "getTargets"
           ELSE IF c = "DOM.enable" THEN acquired(w)
           ELSE \E i \in 2..Len(order) :
                   order[i] = c /\ pc[w] = order[i - 1] /\ resp[w].ok
         inTry(w) ==
           pc[w] = "getTargets" \/ \E i \in 1..(Len(order) - 1) : pc[w] = order[i]
     IN \A w \in Workflows :
             IssuesDebuggerCall(w) =>
               IF pc'[w] = "catch.detach"
               THEN /\ inTry(w)
                    /\ HasDebugger(activeDebuggers, tabId[w])
                    /\ ~inOrder(w, "detach")
               ELSE inOrder(w, pc'[w])]_vars

\* a call attached, sent its commands and awaits the detach of the try block
C32_Witness ==
  \E w \in Workflows :
     /\ pc[w] = "detach"
     /\ issued[w].attach = "ok"
     /\ issued[w].sent
     /\ resp[w].ok

\* the extension is loaded in a browser that has both tabs open
InitTwoTabs ==
  /\ openTabs = Tabs
  /\ debuggee = [t \in Tabs |-> Detached]
  /\ activeDebuggers = {}
  /\ pc = [w \in Workflows |-> "idle"]
  /\ args = [w \in Workflows |-> NoArgs]
  /\ tabId = [w \in Workflows |-> NoTab]
  /\ files = [w \in Workflows |-> <<>>]
  /\ resp = [w \in Workflows |-> NoResp]
  /\ caught = [w \in Workflows |-> ""]
  /\ result = [w \in Workflows |-> NoResult]
  /\ issued = [w \in Workflows |-> NoCalls]
  /\ calls = <<>>
  /\ inbound = NoMessage
  /\ compress = NoCompress
  /\ stitch = NoStitch
  /\ crop = NoCrop
  /\ currentConfig = defaultConfig
  /\ formatCalls = <<>>

\* the tool in a window of two tabs
SpecTabs == InitTwoTabs /\ [][Next]_vars

\* C35: the entry of a tab is added or removed only by a step of a call
\* working on that tab or by the removal of that tab; the steps of a call
\* on another tab and the removal of another tab leave it as it is.
C35_OtherTabsEntryUntouched ==
  [][\A t \in Tabs :
       (HasDebugger(activeDebuggers, t) # HasDebugger(activeDebuggers', t)) =>
         \/ \E w \in Workflows : Moves(w) /\ tabId[w] = t
         \/ TabRemoved(t)]_vars

\* two calls on different tabs, both tabs with an entry, one call awaiting
\* its detach while the other holds its session
C35_Witness ==
  \E w, v \in Workflows :
     /\ pc[w] = "detach"
     /\ tabId[w] = 1
     /\ Holds(v, 2)
     /\ activeDebuggers = Tabs

\* the extension is loaded in a browser whose window has the one tab 1
InitOneTab == Init /\ openTabs = {1}

\* the tool in a window of the one tab 1, when every host call awaited by a
\* call settles so that execute() resumes, and every staging timer fires;
\* no response of the stager and no failure of the send is assumed
SpecLive ==
  /\ InitOneTab
  /\ [][Next]_vars
  /\ \A w \in Workflows :
       WF_vars(\/ AfterTabsQuery(w)
               \/ AfterGetTargets(w)
               \/ AfterAttach(w)
               \/ AfterDomEnable(w)
               \/ AfterRuntimeEnable(w)
               \/ AfterGetDocument(w)
               \/ \E nodeId \in NodeIds : AfterQuerySelector(w, nodeId)
               \/ \E node \in Nodes : AfterDescribeNode(w, node)
               \/ AfterSetFileInputFiles(w)
               \/ AfterEvaluate(w)
               \/ AfterDetach(w)
               \/ AfterCatchDetach(w))
  /\ \A w \in Workflows : WF_vars(StageTimeout(w))

\* C34: every call in flight returns in the end, a call waiting for the
\* stager included, whether or not a staging response ever arrives.
C34_EveryCallReturns ==
  \A w \in Workflows : InFlight(w) ~> pc[w] = "done"

\* a call waited for the stager and returned the staging failure while the
\* other call was still waiting for its own staged file
C34_Witness ==
  \E w, v \in Workflows :
     /\ pc[w] = "done"
     /\ result[w] = createErrorResponse(<<"Failed to prepare file for upload">>)
     /\ pc[v] = "stage"

====
